---------------------------- MODULE Spec2Model ----------------------------
(***************************************************************************)
(* Model of the interactive scene of src/components/Scene3D.tsx: the mode  *)
(* state machine (modeRef, focusTargetRef), the gesture classifier         *)
(* (processGestures), the click handler (onClick), the upload pipeline     *)
(* (handleUploads, addPhotoToScene), the render loop (animate,             *)
(* Particle.update), the life cycle of the MediaPipe effect                *)
(* (setupMediaPipe, predictWebcam, the effect's cleanup) and the life      *)
(* cycle of the scene effect (its frames, its timeout, its cleanup and     *)
(* its re-run).                                                            *)
(*                                                                         *)
(* Numbers.  Floating point values are kept as integers in thousandths:    *)
(* landmark coordinates, pointer coordinates, scales, positions and        *)
(* interpolation factors are in 1/1000, angles in milliradians, times in   *)
(* milliseconds.  Products are rescaled with \div.                         *)
(*                                                                         *)
(* Not modelled: the orientation of the individual renderables             *)
(* (mesh.rotation, spinSpeed, lookAt), the star, the lights, the           *)
(* post-processing chain and targetRotationRef, which is written by        *)
(* animate and read nowhere.  None of them is read by the operations       *)
(* below.                                                                  *)
(***************************************************************************)
EXTENDS Integers, Sequences, FiniteSets, TLC

VARIABLES
    modeRef,          \* Scene3D.tsx:154  'TREE' | 'SCATTER' | 'FOCUS'
    focusTargetRef,   \* Scene3D.tsx:158  object id, or NULL
    particlesRef,     \* Scene3D.tsx:155  sequence of Particle records
    parent,           \* scene graph: parent[o] is Object3D.parent of object o
    photoGroupRef,    \* Scene3D.tsx:157  object id of the photo group
    handRef,          \* Scene3D.tsx:163  [detected, x, y]
    mouseRef,         \* Scene3D.tsx:161  [x, y]
    rotation,         \* mainGroup.rotation [x, y]
    clock,            \* THREE.Clock: elapsed time in ms, and the ticks taken
    uploads,          \* files in flight: [reading, loading, submitted, failed]
    mp,               \* the MediaPipe effect's closure and the resources it holds
    scene,            \* the scene effect's instances: frames and timers pending
    last              \* the operation that produced this state, with its input
                      \* and the mode and focus target it started from

vars == <<modeRef, focusTargetRef, particlesRef, parent, photoGroupRef, handRef,
          mouseRef, rotation, clock, uploads, mp, scene, last>>

NULL == 0

-----------------------------------------------------------------------------
(* Bounds of the model *)

\* ornaments built by the scene effect (CONFIG.particles.count is 1200)
OrnamentCount == 1
\* dust specks built by the scene effect (CONFIG.particles.dustCount is 2000)
DustCount == 1
\* frames rendered, video frames processed and files uploaded over a run,
\* taken together
MaxEvents == 3
\* times the effects of the component run over a run: the mount and the
\* re-runs that follow a cleanup
MaxMounts == 2

-----------------------------------------------------------------------------
(* Fixed point arithmetic *)

\* one unit, in thousandths
Milli == 10 * 100
\* Math.PI, in milliradians
PI == 3142
HalfPI == PI \div 2
TwoPI == 2 * PI

Abs(a) == IF a < 0 THEN -a ELSE a

\* the largest r in lo .. hi with r * r <= n, by bisection
RECURSIVE SqrtIn(_, _, _)
SqrtIn(n, lo, hi) ==
    IF lo >= hi THEN lo
    ELSE LET mid == (lo + hi + 1) \div 2
         IN  IF mid * mid <= n THEN SqrtIn(n, mid, hi) ELSE SqrtIn(n, lo, mid - 1)

\* Math.hypot(dx, dy), rounded down to the thousandth
Hypot(dx, dy) == SqrtIn(dx * dx + dy * dy, 0, Abs(dx) + Abs(dy))

\* sine of x in 0 .. PI, in 1/1000, by Bhaskara's rational approximation
\* 16 x (PI - x) / (5 PI^2 - 4 x (PI - x)), both terms scaled down to fit 32 bits
SinHalf(x) ==
    (16 * Milli * ((x * (PI - x)) \div Milli)) \div ((5 * PI * PI - 4 * x * (PI - x)) \div Milli)

\* Math.sin of an angle in milliradians, in 1/1000
Sin(a) ==
    LET x == a % TwoPI
    IN  IF x <= PI THEN SinHalf(x) ELSE -SinHalf(x - PI)

\* Math.cos
Cos(a) == Sin(a + HalfPI)

\* a * b for two values in 1/1000
Mul(a, b) == (a * b) \div Milli

\* THREE.MathUtils.lerp / Vector3.lerp on one component: a + (b - a) * alpha
Lerp(a, b, alpha) == a + Mul(b - a, alpha)

LerpV(p, q, alpha) ==
    <<Lerp(p[1], q[1], alpha), Lerp(p[2], q[2], alpha), Lerp(p[3], q[3], alpha)>>

-----------------------------------------------------------------------------
(* Configuration: Scene3D.tsx:10-26 *)

\* CONFIG.particles.treeHeight
TreeHeight == 24
\* CONFIG.particles.treeRadius
TreeRadius == 8

-----------------------------------------------------------------------------
(* Particle: Scene3D.tsx:29-143 *)

\* The values Math.random() returns while one renderable and its Particle are
\* built, in 1/1000: rand picks the ornament type, size the mesh scale, id the
\* identity; t (already raised to the power 0.8), phase and jitter place the
\* tree layout; shell, theta and phi (already acos(2u - 1)) the scatter layout.
DrawA ==
    [rand |-> 200, size |-> 500, id |-> 0, t |-> 0, phase |-> 0, jitter |-> 500,
     shell |-> 0, theta |-> 0, phi |-> HalfPI]
DrawB ==
    [rand |-> 950, size |-> 0, id |-> 500, t |-> 500, phase |-> 500, jitter |-> 0,
     shell |-> 600, theta |-> 250, phi |-> 0]
Draws == {DrawA, DrawB}

\* Particle.calculatePositions, the tree layout
TreePosition(d) ==
    LET h     == TreeHeight * Milli
        halfH == h \div 2
        y     == Mul(d.t, h) - halfH
        rMax0 == Mul(TreeRadius * Milli, Milli - d.t)
        rMax  == IF rMax0 < 500 THEN 500 ELSE rMax0
        angle == Mul(d.t, 50 * PI) + Mul(d.phase, PI)
        r     == Mul(rMax, 800 + Mul(d.jitter, 400))
    IN  <<Mul(Cos(angle), r), y, Mul(Sin(angle), r)>>

\* Particle.calculatePositions, the scatter layout
ScatterPosition(d, isDust) ==
    LET rScatter == IF isDust THEN 15 * Milli + 25 * d.shell
                              ELSE 10 * Milli + 15 * d.shell
        theta    == Mul(d.theta, TwoPI)
        phi      == d.phi
    IN  <<Mul(Mul(rScatter, Sin(phi)), Cos(theta)),
          Mul(Mul(rScatter, Sin(phi)), Sin(theta)),
          Mul(rScatter, Cos(phi))>>

\* new Particle(mesh, type, isDust) for a mesh whose scale is s and whose
\* position is pos
NewParticle(mesh, type, isDust, s, pos, d) ==
    [ mesh       |-> mesh,
      type       |-> type,
      isDust     |-> isDust,
      id         |-> d.id,
      posTree    |-> TreePosition(d),
      posScatter |-> ScatterPosition(d, isDust),
      baseScale  |-> s,
      position   |-> pos,
      scale      |-> s ]

Origin == <<0, 0, 0>>

-----------------------------------------------------------------------------
(* Construction of the scene: the scene effect, Scene3D.tsx:361-592 *)

\* Object ids, in the order the scene effect creates the objects.
MainGroupId == 1
PhotoGroupId == 2
OrnamentMesh(i) == PhotoGroupId + i
DustMesh(i) == PhotoGroupId + OrnamentCount + i
DefaultFrameMesh == PhotoGroupId + OrnamentCount + DustCount + 1
DefaultPhotoMesh == DefaultFrameMesh + 1
DefaultPhotoGrp == DefaultFrameMesh + 2

\* the type the particle loop picks for rand
OrnamentType(rand) ==
    IF rand < 400 THEN "BOX"
    ELSE IF rand < 700 THEN "GOLD_BOX"
    ELSE IF rand < 920 THEN "GOLD_SPHERE"
    ELSE IF rand < 970 THEN "RED"
    ELSE "CANE"

\* generatedParticles for the draws ds, one per entity
GeneratedParticles(ds) ==
    [ k \in 1 .. (OrnamentCount + DustCount + 1) |->
        IF k <= OrnamentCount
        THEN NewParticle(OrnamentMesh(k), OrnamentType(ds[k].rand), FALSE,
                         400 + Mul(ds[k].size, 500), Origin, ds[k])
        ELSE IF k <= OrnamentCount + DustCount
        THEN NewParticle(DustMesh(k - OrnamentCount), "DUST", TRUE,
                         500 + ds[k].size, Origin, ds[k])
        ELSE NewParticle(DefaultPhotoGrp, "PHOTO", FALSE, 800, Origin, ds[k]) ]

\* the draws of the scene built at mount, one per entity
BuildDraws ==
    [ k \in 1 .. (OrnamentCount + DustCount + 1) |-> IF k % 2 = 1 THEN DrawA ELSE DrawB ]

\* Object3D.parent of every object once the scene is built
BuiltParents ==
    [ o \in 1 .. DefaultPhotoGrp |->
        IF o = MainGroupId THEN NULL
        ELSE IF o = DefaultFrameMesh \/ o = DefaultPhotoMesh THEN DefaultPhotoGrp
        ELSE IF o = DefaultPhotoGrp THEN PhotoGroupId
        ELSE MainGroupId ]

-----------------------------------------------------------------------------
(* Gesture classification: processGestures, Scene3D.tsx:271-347 *)

FIST_THRESHOLD == 250
OPEN_THRESHOLD == 450
PINCH_THRESHOLD == 80

Pt(x, y) == [x |-> x, y |-> y]

\* The landmarks of one detected hand that processGestures reads: the wrist
\* (0) at the bottom of the frame, the four finger tips (8, 12, 16, 20) above
\* it at a mean distance d, the thumb tip (4) at the offset pv from the index
\* tip, and the middle finger knuckle (9) at c.
Hand(d, pv, c) ==
    [ i \in {0, 4, 8, 9, 12, 16, 20} |->
        CASE i = 0  -> Pt(500, 900)
          [] i = 8  -> Pt(500, 900 - (d + 40))
          [] i = 12 -> Pt(500 + d, 900)
          [] i = 16 -> Pt(500 - d, 900)
          [] i = 20 -> Pt(500, 900 - (d - 40))
          [] i = 4  -> Pt(500 + pv[1], 900 - (d + 40) + pv[2])
          [] i = 9  -> c ]

\* mean distances wrist to tips used by the detections: a fist, the fist
\* threshold itself, the open threshold itself, an open hand
Opennesses == {100, 250, 450, 500}
\* thumb to index offsets: a pinch (length 50) and the pinch threshold itself
\* (length 80)
PinchOffsets == {<<30, 40>>, <<48, 64>>}
\* positions of landmark 9
Centers == {Pt(250, 400)}

\* the results handLandmarker.detectForVideo can return
Detections ==
    {[landmarks |-> <<>>]} \cup
    {[landmarks |-> <<Hand(d, pv, c)>>] : d \in Opennesses, pv \in PinchOffsets, c \in Centers}

\* pinchDist, Scene3D.tsx:290
PinchDist(lm) == Hypot(lm[4].x - lm[8].x, lm[4].y - lm[8].y)

\* avgDistToWrist, Scene3D.tsx:293-298
AvgDistToWrist(lm) ==
    ( Hypot(lm[8].x - lm[0].x, lm[8].y - lm[0].y)
    + Hypot(lm[12].x - lm[0].x, lm[12].y - lm[0].y)
    + Hypot(lm[16].x - lm[0].x, lm[16].y - lm[0].y)
    + Hypot(lm[20].x - lm[0].x, lm[20].y - lm[0].y) ) \div 4

\* particlesRef.current.filter(p => p.type === 'PHOTO'), as indices
Photos(particles) == { k \in 1 .. Len(particles) : particles[k].type = "PHOTO" }

\* The state machine of processGestures, Scene3D.tsx:312-342: the mode and the
\* focus target after a detection with landmarks lm; pick is the photo that
\* Math.random() selects.
GestureFist(lm, mode, focus, particles, pick) ==
    IF mode # "TREE" THEN [mode |-> "TREE", focus |-> NULL]
    ELSE [mode |-> mode, focus |-> focus]

\* variant: the random index is used on the whole collection, not on the photos
GesturePinchAnyParticle(lm, mode, focus, particles, pick) ==
    IF mode # "FOCUS"
    THEN [mode |-> "FOCUS",
          focus |-> IF Photos(particles) # {} THEN particles[1].mesh ELSE focus]
    ELSE [mode |-> mode, focus |-> focus]

\* variant: a photo is picked on every pinch, whatever the mode
GesturePinchAlways(lm, mode, focus, particles, pick) ==
    [mode |-> "FOCUS",
     focus |-> IF Photos(particles) # {} THEN particles[pick].mesh ELSE focus]

GesturePinch(lm, mode, focus, particles, pick) ==
    IF mode # "FOCUS"
    THEN [mode |-> "FOCUS",
          focus |-> IF Photos(particles) # {} THEN particles[pick].mesh ELSE focus]
    ELSE [mode |-> mode, focus |-> focus]

\* variant: without the second check, which releases the focus
GestureOpenFirstCheckOnly(lm, mode, focus, particles, pick) ==
    IF mode # "SCATTER" /\ mode # "FOCUS"
    THEN [mode |-> "SCATTER", focus |-> NULL]
    ELSE [mode |-> mode, focus |-> focus]

GestureOpen(lm, mode, focus, particles, pick) ==
    LET first == IF mode # "SCATTER" /\ mode # "FOCUS"
                 THEN [mode |-> "SCATTER", focus |-> NULL]
                 ELSE [mode |-> mode, focus |-> focus]
    IN  IF first.mode = "FOCUS" THEN [mode |-> "SCATTER", focus |-> NULL] ELSE first

\* variant: the pinch is tested before the fist
StateMachinePinchFirst(lm, mode, focus, particles, pick) ==
    IF PinchDist(lm) < PINCH_THRESHOLD
    THEN GesturePinch(lm, mode, focus, particles, pick)
    ELSE IF AvgDistToWrist(lm) < FIST_THRESHOLD
    THEN GestureFist(lm, mode, focus, particles, pick)
    ELSE IF AvgDistToWrist(lm) > OPEN_THRESHOLD
    THEN GestureOpen(lm, mode, focus, particles, pick)
    ELSE [mode |-> mode, focus |-> focus]

\* variant: the open threshold itself counts as an open hand
StateMachineOpenInclusive(lm, mode, focus, particles, pick) ==
    IF AvgDistToWrist(lm) < FIST_THRESHOLD
    THEN GestureFist(lm, mode, focus, particles, pick)
    ELSE IF PinchDist(lm) < PINCH_THRESHOLD
    THEN GesturePinch(lm, mode, focus, particles, pick)
    ELSE IF AvgDistToWrist(lm) >= OPEN_THRESHOLD
    THEN GestureOpen(lm, mode, focus, particles, pick)
    ELSE [mode |-> mode, focus |-> focus]

StateMachine(lm, mode, focus, particles, pick) ==
    IF AvgDistToWrist(lm) < FIST_THRESHOLD
    THEN GestureFist(lm, mode, focus, particles, pick)
    ELSE IF PinchDist(lm) < PINCH_THRESHOLD
    THEN GesturePinch(lm, mode, focus, particles, pick)
    ELSE IF AvgDistToWrist(lm) > OPEN_THRESHOLD
    THEN GestureOpen(lm, mode, focus, particles, pick)
    ELSE [mode |-> mode, focus |-> focus]

\* handRef after a detection, Scene3D.tsx:272-280 and 344-346
HandAfter(result, hand) ==
    IF Len(result.landmarks) > 0
    THEN LET lm == result.landmarks[1]
         IN  [detected |-> TRUE,
              x |-> (Milli - lm[9].x - 500) * 2,
              y |-> (Milli - lm[9].y - 500) * 2]
    ELSE [hand EXCEPT !.detected = FALSE]

\* what a step records about itself
Step(op, open, pinch, hit) ==
    [op |-> op, open |-> open, pinch |-> pinch, hit |-> hit,
     mode |-> modeRef, focus |-> focusTargetRef]

\* processGestures(result)
ProcessGestures(result) ==
    /\ handRef' = HandAfter(result, handRef)
    /\ IF Len(result.landmarks) > 0
       THEN LET lm == result.landmarks[1]
            IN  /\ \E pick \in (IF Photos(particlesRef) = {} THEN {0} ELSE Photos(particlesRef)) :
                     LET next == StateMachine(lm, modeRef, focusTargetRef, particlesRef, pick)
                     IN  /\ modeRef' = next.mode
                         /\ focusTargetRef' = next.focus
                /\ last' = Step("gesture", AvgDistToWrist(lm), PinchDist(lm), NULL)
       ELSE /\ UNCHANGED <<modeRef, focusTargetRef>>
            /\ last' = Step("nohand", 0, 0, NULL)

-----------------------------------------------------------------------------
(* Pointer: onMouseMove and onClick, Scene3D.tsx:666-707 *)

\* pointer positions (e.clientX / window.innerWidth, e.clientY / window.innerHeight)
Pointers == {Pt(500, 500), Pt(1000, 250)}

\* onMouseMove(e)
OnMouseMove(e) ==
    /\ mouseRef' = IF ~handRef.detected
                   THEN [x |-> e.x * 2 - Milli, y |-> -(e.y * 2) + Milli]
                   ELSE mouseRef
    /\ last' = Step("mousemove", 0, 0, NULL)
    /\ UNCHANGED <<modeRef, focusTargetRef, particlesRef, parent, photoGroupRef,
                   handRef, rotation, clock, uploads, mp, scene>>

\* photoMeshes: the renderables of the photo particles
PhotoMeshes(particles) == { particles[k].mesh : k \in Photos(particles) }

\* o is g or lies below g in the scene graph
RECURSIVE IsUnder(_, _, _)
IsUnder(o, g, par) ==
    IF o = NULL THEN FALSE
    ELSE IF o = g THEN TRUE
    ELSE IsUnder(par[o], g, par)

\* has o a child (a Group has no geometry of its own and is never intersected)
IsLeaf(o, par) == \A c \in DOMAIN par : par[c] # o

\* the objects raycaster.intersectObjects(photoMeshes, true) can report first
Intersectable(particles, par) ==
    { o \in DOMAIN par : IsLeaf(o, par) /\ \E g \in PhotoMeshes(particles) : IsUnder(o, g, par) }

\* variant: the intersected object itself is taken, without the walk
TargetGroupNoWalk(o, par, photoGroup) == o

\* the loop of Scene3D.tsx:688-691: walk up from the intersected object to
\* the child of the photo group
RECURSIVE TargetGroup(_, _, _)
TargetGroup(o, par, photoGroup) ==
    IF o # NULL /\ par[o] # photoGroup THEN TargetGroup(par[o], par, photoGroup) ELSE o

\* variant: leaving FOCUS does not clear the focus target
ClickCycleKeepsFocus(mode, focus) ==
    IF mode = "FOCUS" THEN [mode |-> "SCATTER", focus |-> focus]
    ELSE IF mode = "TREE" THEN [mode |-> "SCATTER", focus |-> focus]
    ELSE [mode |-> "TREE", focus |-> focus]

\* variant: a clean rotation FOCUS, SCATTER, TREE, FOCUS
ClickCycleRotation(mode, focus) ==
    IF mode = "FOCUS" THEN [mode |-> "SCATTER", focus |-> NULL]
    ELSE IF mode = "TREE" THEN [mode |-> "FOCUS", focus |-> focus]
    ELSE [mode |-> "TREE", focus |-> focus]

\* the mode cycle of a click that selects no photo, Scene3D.tsx:699-706
ClickCycle(mode, focus) ==
    IF mode = "FOCUS" THEN [mode |-> "SCATTER", focus |-> NULL]
    ELSE IF mode = "TREE" THEN [mode |-> "SCATTER", focus |-> focus]
    ELSE [mode |-> "TREE", focus |-> focus]

\* the mode and focus target after a click whose first intersection is hit
\* (NULL: intersects is empty)
ClickResult(hit, mode, focus, par, photoGroup) ==
    IF hit # NULL /\ TargetGroup(hit, par, photoGroup) # NULL
    THEN [mode |-> "FOCUS", focus |-> TargetGroup(hit, par, photoGroup)]
    ELSE ClickCycle(mode, focus)

\* onClick(e): hit is intersects[0].object
OnClick(hit) ==
    /\ LET next == ClickResult(hit, modeRef, focusTargetRef, parent, photoGroupRef)
       IN  /\ modeRef' = next.mode
           /\ focusTargetRef' = next.focus
    /\ last' = Step("click", 0, 0, hit)
    /\ UNCHANGED <<particlesRef, parent, photoGroupRef, handRef, mouseRef, rotation,
                   clock, uploads, mp, scene>>

-----------------------------------------------------------------------------
(* Upload pipeline: handleUploads and addPhotoToScene, Scene3D.tsx:165-218 *)

InFlight == uploads.reading + uploads.loading

\* how many more frames, video frames and files the run may take; scene.spent
\* counts the frames and video frames of the instances that came before
Budget ==
    MaxEvents - (clock.ticks + uploads.submitted + (mp.lastVideoTime + 1) + scene.spent)

\* handleUploads(files) for n files: one FileReader per file
HandleUploads(n) ==
    /\ n <= Budget
    /\ IF photoGroupRef = NULL
       THEN UNCHANGED uploads
       ELSE uploads' = [uploads EXCEPT !.reading = @ + n, !.submitted = @ + n]
    /\ last' = Step("handleUploads", n, 0, NULL)
    /\ UNCHANGED <<modeRef, focusTargetRef, particlesRef, parent, photoGroupRef,
                   handRef, mouseRef, rotation, clock, mp, scene>>

\* reader.onload: with a result the texture load starts, without one the
\* file is dropped
ReaderOnload(hasResult) ==
    /\ uploads.reading > 0
    /\ uploads' = IF hasResult
                  THEN [uploads EXCEPT !.reading = @ - 1, !.loading = @ + 1]
                  ELSE [uploads EXCEPT !.reading = @ - 1, !.failed = @ + 1]
    /\ last' = Step("readerOnload", 0, 0, NULL)
    /\ UNCHANGED <<modeRef, focusTargetRef, particlesRef, parent, photoGroupRef,
                   handRef, mouseRef, rotation, clock, mp, scene>>

\* the image does not decode: TextureLoader.load never calls onLoad
TextureError ==
    /\ uploads.loading > 0
    /\ uploads' = [uploads EXCEPT !.loading = @ - 1, !.failed = @ + 1]
    /\ last' = Step("textureError", 0, 0, NULL)
    /\ UNCHANGED <<modeRef, focusTargetRef, particlesRef, parent, photoGroupRef,
                   handRef, mouseRef, rotation, clock, mp, scene>>

\* variant: the new particle is put in front of the collection (unshift)
AddPhotoToSceneFront(particles, par, photoGroup, d) ==
    IF photoGroup = NULL THEN [particles |-> particles, parent |-> par]
    ELSE LET group == Len(par) + 3
             p     == NewParticle(group, "PHOTO", FALSE, 800, Origin, d)
         IN  [ particles |-> <<[p EXCEPT !.position = p.posScatter]>> \o particles,
               parent    |-> par \o <<group, group, photoGroup>> ]

\* particlesRef and the scene graph after addPhotoToScene(texture): frame,
\* photo and group are the next three objects
AddPhotoToScene(particles, par, photoGroup, d) ==
    IF photoGroup = NULL THEN [particles |-> particles, parent |-> par]
    ELSE LET frame == Len(par) + 1
             photo == Len(par) + 2
             group == Len(par) + 3
             p     == NewParticle(group, "PHOTO", FALSE, 800, Origin, d)
         IN  [ particles |-> Append(particles, [p EXCEPT !.position = p.posScatter]),
               parent    |-> par \o <<group, group, photoGroup>> ]

\* the onLoad callback of TextureLoader.load, Scene3D.tsx:178-181
TextureOnLoad ==
    /\ uploads.loading > 0
    /\ uploads' = [uploads EXCEPT !.loading = @ - 1]
    /\ \E d \in Draws :
         LET next == AddPhotoToScene(particlesRef, parent, photoGroupRef, d)
         IN  /\ particlesRef' = next.particles
             /\ parent' = next.parent
    /\ last' = Step("addPhoto", 0, 0, NULL)
    /\ UNCHANGED <<modeRef, focusTargetRef, photoGroupRef, handRef, mouseRef,
                   rotation, clock, mp, scene>>

-----------------------------------------------------------------------------
(* Particle.update, Scene3D.tsx:83-142 *)

\* new THREE.Vector3(0, 0, z).applyMatrix4(invMatrix): the point (0, 0, z) in
\* the local space of the main group, whose world matrix is the rotation rot
\* (Euler order XYZ, no translation)
CameraLocal(z, rot) ==
    <<-Mul(Mul(z, Cos(rot.x)), Sin(rot.y)),
      Mul(z, Sin(rot.x)),
      Mul(Mul(z, Cos(rot.x)), Cos(rot.y))>>

IsTarget(p, mode, focusTarget) == mode = "FOCUS" /\ p.mesh = focusTarget

\* target, Scene3D.tsx:84-100
TargetPosition(p, mode, focusTarget, rot) ==
    IF mode = "SCATTER" THEN p.posScatter
    ELSE IF mode = "FOCUS"
    THEN IF p.mesh = focusTarget THEN CameraLocal(38 * Milli, rot) ELSE p.posScatter
    ELSE p.posTree

\* variant: in FOCUS the entities that are not the target keep their scale
TargetScaleNoShrink(p, mode, time, focusTarget) ==
    IF p.isDust
    THEN IF mode = "TREE" THEN 0
         ELSE Mul(p.baseScale, 800 + Mul(500, Sin(time * 3 + p.id * 10)))
    ELSE IF mode = "SCATTER" /\ p.type = "PHOTO" THEN Mul(p.baseScale, 2 * Milli)
    ELSE IF mode = "FOCUS" /\ IsTarget(p, mode, focusTarget) THEN 6 * Milli
    ELSE p.baseScale

\* s, Scene3D.tsx:129-139
TargetScale(p, mode, time, focusTarget) ==
    IF p.isDust
    THEN IF mode = "TREE" THEN 0
         ELSE Mul(p.baseScale, 800 + Mul(500, Sin(time * 3 + p.id * 10)))
    ELSE IF mode = "SCATTER" /\ p.type = "PHOTO" THEN Mul(p.baseScale, 2 * Milli)
    ELSE IF mode = "FOCUS"
    THEN IF IsTarget(p, mode, focusTarget) THEN 6 * Milli ELSE Mul(p.baseScale, 500)
    ELSE p.baseScale

\* variant: the scale is set to its target, not interpolated
UpdateSnapsScale(p, dt, mode, time, focusTarget, rot) ==
    LET lerpSpeed == IF IsTarget(p, mode, focusTarget) THEN 3500 ELSE 1800
    IN  [p EXCEPT
           !.position = LerpV(@, TargetPosition(p, mode, focusTarget, rot), Mul(lerpSpeed, dt)),
           !.scale    = TargetScale(p, mode, time, focusTarget)]

\* the particle after update(dt, mode, time, focusTarget, mainGroupMatrix)
Update(p, dt, mode, time, focusTarget, rot) ==
    LET lerpSpeed == IF IsTarget(p, mode, focusTarget) THEN 3500 ELSE 1800
    IN  [p EXCEPT
           !.position = LerpV(@, TargetPosition(p, mode, focusTarget, rot), Mul(lerpSpeed, dt)),
           !.scale    = Lerp(@, TargetScale(p, mode, time, focusTarget), Mul(3 * Milli, dt))]

-----------------------------------------------------------------------------
(* Render loop: animate, Scene3D.tsx:608-651 *)

\* what clock.getDelta() returns, in ms
Deltas == {0, 100}

\* variant: a detected hand drives the rotation in every mode
HandDrivenAnyMode(hand, mode) == hand.detected

\* does the hand drive the rotation, Scene3D.tsx:616
HandDriven(hand, mode) == hand.detected /\ (mode = "SCATTER" \/ mode = "FOCUS")

\* targetY and targetX, Scene3D.tsx:619-620 and 629-630
RotationTarget(hand, mouse, mode) ==
    IF HandDriven(hand, mode)
    THEN [y |-> Mul(Mul(hand.x, PI), 800), x |-> Mul(Mul(hand.y, PI), 300)]
    ELSE [y |-> Mul(Mul(mouse.x, PI), 500), x |-> Mul(Mul(mouse.y, PI), 200)]

\* mainGroup.rotation after one frame, Scene3D.tsx:616-642
RotationAfter(rot, hand, mouse, mode, dt) ==
    LET tg == RotationTarget(hand, mouse, mode)
    IN  IF HandDriven(hand, mode)
        THEN [y |-> rot.y + Mul(tg.y - rot.y, Mul(3 * Milli, dt)),
              x |-> rot.x + Mul(tg.x - rot.x, Mul(3 * Milli, dt))]
        ELSE IF mode = "TREE"
        THEN [y |-> rot.y + Mul(200, dt),
              x |-> rot.x + Mul(tg.x - rot.x, Mul(2 * Milli, dt))]
        ELSE [y |-> rot.y + Mul(tg.y - rot.y, Mul(2 * Milli, dt)),
              x |-> rot.x + Mul(tg.x - rot.x, Mul(2 * Milli, dt))]

\* animate() of the latest scene instance: one frame.  mainGroup.matrixWorld
\* is recomputed when the frame is rendered, so the particles see the rotation
\* the previous frame left.  The frame ends by requesting the next one.
Animate(dt) ==
    /\ Budget > 0
    /\ scene' = [scene EXCEPT !.frame = "next", !.ranTorn = @ \/ ~scene.live]
    /\ clock' = [time |-> clock.time + dt, ticks |-> clock.ticks + 1]
    /\ rotation' = RotationAfter(rotation, handRef, mouseRef, modeRef, dt)
    /\ particlesRef' =
         [ k \in 1 .. Len(particlesRef) |->
             Update(particlesRef[k], dt, modeRef, clock.time + dt, focusTargetRef, rotation) ]
    /\ last' = Step("animate", dt, 0, NULL)
    /\ UNCHANGED <<modeRef, focusTargetRef, parent, photoGroupRef, handRef, mouseRef,
                   uploads, mp>>

\* the state of the scene effect once it has run for the first time,
\* Scene3D.tsx:653-657 and 709-711:
\*   live      the listeners of the latest instance are registered (its
\*             cleanup has not run)
\*   frame     the animation frame request of the latest instance: "first"
\*             (animId), "next" (requested by animate itself) or "none"
\*   timer     the setTimeout of the latest instance is pending
\*   stale     the instances before the latest, all torn down: frame and timer
\*             as above, and time and rot, the instance's clock and the
\*             rotation of its main group
\*   built     how many times the scene effect has run
\*   ready     how many times onLoadComplete was invoked
\*   readyTorn onLoadComplete was invoked by an instance already torn down
\*   ranTorn   animate was executed by an instance already torn down
\*   spent     frames and video frames of the stale instances
SceneBuilt ==
    [ live |-> TRUE, frame |-> "first", timer |-> TRUE, stale |-> <<>>, built |-> 1,
      ready |-> 0, readyTorn |-> FALSE, ranTorn |-> FALSE, spent |-> 0 ]

-----------------------------------------------------------------------------
(* The MediaPipe effect, Scene3D.tsx:221-359 *)

\* mp holds the closure of the effect and the resources it has acquired:
\*   pc                where setupMediaPipe stands: awaiting "vision",
\*                     "detector" or "stream", or ended: "done", "failed"
\*   handLandmarker    "null", or the detector: "open" or "closed"
\*   video             is the closure's video an element
\*   srcObject         is video.srcObject the stream
\*   tracks            the camera stream: "none", "live" or "stopped"
\*   listening         predictWebcam waits for the video's loadeddata event
\*   animationFrameId  -1, or 1 for the id of the latest request
\*   raf               a requestAnimationFrame(predictWebcam) is pending
\*   lastVideoTime     -1, or the video time of the last frame processed
\*   tornDown          the effect's cleanup has run
MPMounted ==
    [ pc |-> "vision", handLandmarker |-> "null", video |-> FALSE, srcObject |-> FALSE,
      tracks |-> "none", listening |-> FALSE, animationFrameId |-> -1, raf |-> FALSE,
      lastVideoTime |-> -1, tornDown |-> FALSE ]

ModelVars == <<modeRef, focusTargetRef, particlesRef, parent, photoGroupRef, handRef,
               mouseRef, rotation, clock, uploads, scene>>

\* await FilesetResolver.forVisionTasks(...) settles
VisionSettled(ok) ==
    /\ mp.pc = "vision"
    /\ mp' = [mp EXCEPT !.pc = IF ok THEN "detector" ELSE "failed"]
    /\ last' = Step("setup", 0, 0, NULL)
    /\ UNCHANGED ModelVars

\* await HandLandmarker.createFromOptions(...) settles; then the video element
\* is looked up (found or not) and, where navigator.mediaDevices.getUserMedia
\* exists (hasMedia), the stream is requested
DetectorSettled(ok, found, hasMedia) ==
    /\ mp.pc = "detector"
    /\ mp' = IF ok
             THEN [mp EXCEPT !.handLandmarker = "open", !.video = found,
                             !.pc = IF hasMedia THEN "stream" ELSE "done"]
             ELSE [mp EXCEPT !.pc = "failed"]
    /\ last' = Step("setup", 0, 0, NULL)
    /\ UNCHANGED ModelVars

\* variant: the listener is registered before the stream is awaited, so a
\* refused camera leaves predictWebcam registered
StreamSettledListensFirst(ok) ==
    /\ mp.pc = "stream"
    /\ mp' = IF ok
             THEN [mp EXCEPT !.tracks = "live", !.srcObject = mp.video,
                             !.listening = mp.video, !.pc = "done"]
             ELSE [mp EXCEPT !.listening = mp.video, !.pc = "failed"]
    /\ last' = Step("setup", 0, 0, NULL)
    /\ UNCHANGED ModelVars

\* await navigator.mediaDevices.getUserMedia(...) settles
StreamSettled(ok) ==
    /\ mp.pc = "stream"
    /\ mp' = IF ok
             THEN [mp EXCEPT !.tracks = "live", !.srcObject = mp.video,
                             !.listening = mp.video, !.pc = "done"]
             ELSE [mp EXCEPT !.pc = "failed"]
    /\ last' = Step("setup", 0, 0, NULL)
    /\ UNCHANGED ModelVars

\* the video times predictWebcam can read next: the time of the last frame
\* processed (no new frame yet) or that of the next frame
VideoTimes ==
    (IF mp.lastVideoTime >= 0 THEN {mp.lastVideoTime} ELSE {}) \cup
    (IF Budget > 0 THEN {mp.lastVideoTime + 1} ELSE {})

\* predictWebcam() reading video.currentTime = ct, with result what
\* detectForVideo returns; detectForVideo on a closed detector may also throw
\* (throws), which ends the call before the next frame is requested.  Once
\* predictWebcam runs the loadeddata event has fired.
PredictWebcam(ct, result, throws) ==
    IF mp.video /\ mp.handLandmarker # "null" /\ ct # mp.lastVideoTime
    THEN IF throws
         THEN /\ mp.handLandmarker = "closed"
              /\ mp' = [mp EXCEPT !.lastVideoTime = ct, !.raf = FALSE, !.listening = FALSE]
              /\ last' = Step("detectThrows", 0, 0, NULL)
              /\ UNCHANGED ModelVars
         ELSE /\ ProcessGestures(result)
              /\ mp' = [mp EXCEPT !.lastVideoTime = ct, !.animationFrameId = 1,
                                  !.raf = TRUE, !.listening = FALSE]
              /\ UNCHANGED <<particlesRef, parent, photoGroupRef, mouseRef, rotation,
                             clock, uploads, scene>>
    ELSE /\ ~throws
         /\ mp' = [mp EXCEPT !.animationFrameId = 1, !.raf = TRUE, !.listening = FALSE]
         /\ last' = Step("predictIdle", 0, 0, NULL)
         /\ UNCHANGED ModelVars

\* the video's loadeddata event calls predictWebcam
LoadedData(ct, result, throws) ==
    /\ mp.listening
    /\ mp.tracks = "live"
    /\ PredictWebcam(ct, result, throws)

\* the pending animation frame calls predictWebcam
AnimationFrame(ct, result, throws) ==
    /\ mp.raf
    /\ PredictWebcam(ct, result, throws)

\* the closure m after the cleanup the effect returns, Scene3D.tsx:351-358
MPAfterCleanup(m) ==
    [m EXCEPT
       !.tracks = IF m.video /\ m.srcObject THEN "stopped" ELSE @,
       !.raf = IF m.animationFrameId # -1 THEN FALSE ELSE @,
       !.handLandmarker = IF @ # "null" THEN "closed" ELSE @,
       !.tornDown = TRUE]

\* the cleanup of the MediaPipe effect
MPCleanup ==
    /\ ~mp.tornDown
    /\ mp' = MPAfterCleanup(mp)
    /\ last' = Step("cleanup", 0, 0, NULL)
    /\ UNCHANGED ModelVars

-----------------------------------------------------------------------------
(* Life cycle of the scene effect, Scene3D.tsx:361-724.  React runs the      *)
(* cleanups of the component's effects together and later runs the effects  *)
(* again, with the refs of the component kept: StrictMode does so right     *)
(* after the mount.                                                         *)

\* scene after the cleanup the scene effect returns, Scene3D.tsx:713-723:
\* cancelAnimationFrame(animId) withdraws the first request only, and the
\* timeout is not cleared
SceneAfterCleanup(sc) ==
    [sc EXCEPT !.live = FALSE, !.frame = IF @ = "first" THEN "none" ELSE @]

\* Object3D.parent once the scene effect has built its objects again, after
\* the objects of par
RebuiltParents(par) ==
    par \o [ o \in 1 .. DefaultPhotoGrp |->
               IF BuiltParents[o] = NULL THEN NULL ELSE BuiltParents[o] + Len(par) ]

\* generatedParticles of the scene effect run again: new renderables
RebuiltParticles(par) ==
    LET g == GeneratedParticles(BuildDraws)
    IN  [ k \in 1 .. Len(g) |-> [g[k] EXCEPT !.mesh = @ + Len(par)] ]

\* the cleanups of the MediaPipe effect and of the scene effect
Unmount ==
    /\ scene.live
    /\ mp' = MPAfterCleanup(mp)
    /\ scene' = SceneAfterCleanup(scene)
    /\ last' = Step("unmount", 0, 0, NULL)
    /\ UNCHANGED <<modeRef, focusTargetRef, particlesRef, parent, photoGroupRef, handRef,
                   mouseRef, rotation, clock, uploads>>

\* the effects run again: a new closure of the MediaPipe effect, whose
\* setupMediaPipe starts, and a new scene, clock and main group; the refs
\* modeRef, focusTargetRef, handRef and mouseRef are not written.  The closure
\* left behind acts no more once its cleanup has released it; one torn down
\* while setupMediaPipe awaited is followed no further here.
Mount ==
    /\ ~scene.live
    /\ scene.built < MaxMounts
    /\ mp' = MPMounted
    /\ scene' = [scene EXCEPT
                   !.live = TRUE, !.frame = "first", !.timer = TRUE, !.built = @ + 1,
                   !.stale = Append(@, [frame |-> scene.frame, timer |-> scene.timer,
                                        time |-> clock.time, rot |-> rotation]),
                   !.spent = @ + clock.ticks + (mp.lastVideoTime + 1)]
    /\ clock' = [time |-> 0, ticks |-> 0]
    /\ rotation' = [x |-> 0, y |-> 0]
    /\ particlesRef' = RebuiltParticles(parent)
    /\ parent' = RebuiltParents(parent)
    /\ photoGroupRef' = Len(parent) + PhotoGroupId
    /\ last' = Step("mount", 0, 0, NULL)
    /\ UNCHANGED <<modeRef, focusTargetRef, handRef, mouseRef, uploads>>

\* animate() of the stale instance i: it reads the refs, so it updates the
\* particles of the latest instance, with its own clock and main group
AnimateStale(i, dt) ==
    /\ Budget > 0
    /\ scene.stale[i].frame # "none"
    /\ LET st == scene.stale[i]
       IN  /\ scene' = [scene EXCEPT
                          !.stale[i] = [st EXCEPT
                                          !.frame = "next",
                                          !.time = @ + dt,
                                          !.rot = RotationAfter(@, handRef, mouseRef, modeRef, dt)],
                          !.ranTorn = TRUE,
                          !.spent = @ + 1]
           /\ particlesRef' =
                [ k \in 1 .. Len(particlesRef) |->
                    Update(particlesRef[k], dt, modeRef, st.time + dt, focusTargetRef, st.rot) ]
    /\ last' = Step("animate", dt, 0, NULL)
    /\ UNCHANGED <<modeRef, focusTargetRef, parent, photoGroupRef, handRef, mouseRef,
                   rotation, clock, uploads, mp>>

\* the timeout of the latest instance expires: onLoadComplete()
LoadTimeout ==
    /\ scene.timer
    /\ scene' = [scene EXCEPT !.timer = FALSE, !.ready = @ + 1,
                              !.readyTorn = @ \/ ~scene.live]
    /\ last' = Step("loadComplete", 0, 0, NULL)
    /\ UNCHANGED <<modeRef, focusTargetRef, particlesRef, parent, photoGroupRef, handRef,
                   mouseRef, rotation, clock, uploads, mp>>

\* the timeout of the stale instance i expires: onLoadComplete()
LoadTimeoutStale(i) ==
    /\ scene.stale[i].timer
    /\ scene' = [scene EXCEPT !.stale[i].timer = FALSE, !.ready = @ + 1, !.readyTorn = TRUE]
    /\ last' = Step("loadComplete", 0, 0, NULL)
    /\ UNCHANGED <<modeRef, focusTargetRef, particlesRef, parent, photoGroupRef, handRef,
                   mouseRef, rotation, clock, uploads, mp>>

-----------------------------------------------------------------------------
(* The program *)

\* The state once the component is mounted: the scene is built and
\* setupMediaPipe has started.
Mounted ==
    /\ modeRef = "TREE"
    /\ focusTargetRef = NULL
    /\ particlesRef = GeneratedParticles(BuildDraws)
    /\ parent = BuiltParents
    /\ photoGroupRef = PhotoGroupId
    /\ handRef = [detected |-> FALSE, x |-> 0, y |-> 0]
    /\ mouseRef = [x |-> 0, y |-> 0]
    /\ rotation = [x |-> 0, y |-> 0]
    /\ clock = [time |-> 0, ticks |-> 0]
    /\ uploads = [reading |-> 0, loading |-> 0, submitted |-> 0, failed |-> 0]
    /\ scene = SceneBuilt
    /\ last = [op |-> "mount", open |-> 0, pinch |-> 0, hit |-> NULL,
               mode |-> "TREE", focus |-> NULL]

\* mp once setupMediaPipe has returned with the detector created, the video
\* element found and the camera stream attached to it
MPStarted ==
    [ pc |-> "done", handLandmarker |-> "open", video |-> TRUE, srcObject |-> TRUE,
      tracks |-> "live", listening |-> TRUE, animationFrameId |-> -1, raf |-> FALSE,
      lastVideoTime |-> -1, tornDown |-> FALSE ]

Setup ==
    \/ \E ok \in BOOLEAN : VisionSettled(ok)
    \/ \E ok, found, hasMedia \in BOOLEAN : DetectorSettled(ok, found, hasMedia)
    \/ \E ok \in BOOLEAN : StreamSettled(ok)

Gestures ==
    \/ \E ct \in VideoTimes, result \in Detections : LoadedData(ct, result, FALSE)
    \/ \E ct \in VideoTimes, result \in Detections : AnimationFrame(ct, result, FALSE)

\* the listeners are registered while the latest instance is not torn down
Click ==
    /\ scene.live
    /\ \E hit \in {NULL} \cup Intersectable(particlesRef, parent) : OnClick(hit)

MouseMove ==
    /\ scene.live
    /\ \E e \in Pointers : OnMouseMove(e)

Upload ==
    \/ \E n \in 1 .. MaxEvents : HandleUploads(n)
    \/ \E hasResult \in BOOLEAN : ReaderOnload(hasResult)
    \/ TextureError
    \/ TextureOnLoad

\* the pending animation frame calls animate
Render ==
    /\ scene.frame # "none"
    /\ \E dt \in Deltas : Animate(dt)

(* The running scene.  The gesture pipeline has been set up (MPStarted is    *)
(* reached from the mount under SpecMedia); everything else is as mounted.   *)
(* The steps are the detections, the clicks, the uploads and the frames of   *)
(* the render loop.  Pointer moves write mouseRef only, which only the       *)
(* rotation of the main group depends on: they are left to SpecPointer.      *)
Init == Mounted /\ mp = MPStarted

Next == Gestures \/ Click \/ Upload \/ Render

Spec == Init /\ [][Next]_vars

(* The running scene with the callbacks of the upload pipeline delivered:    *)
(* a FileReader whose read has ended calls onload, and a TextureLoader whose *)
(* load has ended calls onLoad or gives the image up, so a file in flight    *)
(* does not stay in flight for ever.                                         *)
Settle == (\E hasResult \in BOOLEAN : ReaderOnload(hasResult)) \/ TextureOnLoad \/ TextureError

SpecFair == Spec /\ WF_vars(Settle)

(* The running scene under the pointer: detections, clicks, pointer moves   *)
(* and frames.                                                              *)
NextPointer == Gestures \/ Click \/ MouseMove \/ Render

SpecPointer == Init /\ [][NextPointer]_vars

(* The life cycle of the MediaPipe effect, from the mount: the steps of     *)
(* setupMediaPipe, the calls of predictWebcam and the effect's cleanup.     *)
InitMedia == Mounted /\ mp = MPMounted

Teardown ==
    \/ MPCleanup
    \/ \E ct \in VideoTimes, result \in Detections : LoadedData(ct, result, TRUE)
    \/ \E ct \in VideoTimes, result \in Detections : AnimationFrame(ct, result, TRUE)

NextMedia == Setup \/ Gestures \/ Teardown

SpecMedia == InitMedia /\ [][NextMedia]_vars

(* The scene from the mount, while setupMediaPipe runs and after it has     *)
(* ended either way: the steps of setupMediaPipe, the detections, the       *)
(* clicks and the frames of the render loop.                                *)
NextSetup == Setup \/ Gestures \/ Click \/ Render

SpecSetup == InitMedia /\ [][NextSetup]_vars

(* Particle.update over its inputs.  The scene holds the entities built at   *)
(* the mount, whatever Math.random() drew for them, and one uploaded photo;  *)
(* the mode is any of the three, with a photo as focus target in FOCUS and   *)
(* none otherwise; the clock has reached any of Times (the frames that       *)
(* brought it there are not counted).  The steps are the frames.             *)
Times == {0, 200, 1000}

InitUpdate ==
    /\ \E ds \in [1 .. (OrnamentCount + DustCount + 1) -> Draws], d \in Draws :
         LET built == AddPhotoToScene(GeneratedParticles(ds), BuiltParents, PhotoGroupId, d)
         IN  /\ particlesRef = built.particles
             /\ parent = built.parent
    /\ modeRef \in {"TREE", "SCATTER", "FOCUS"}
    /\ focusTargetRef \in (IF modeRef = "FOCUS" THEN PhotoMeshes(particlesRef) ELSE {NULL})
    /\ clock \in {[time |-> t, ticks |-> 0] : t \in Times}
    /\ photoGroupRef = PhotoGroupId
    /\ handRef = [detected |-> FALSE, x |-> 0, y |-> 0]
    /\ mouseRef = [x |-> 0, y |-> 0]
    /\ rotation = [x |-> 0, y |-> 0]
    /\ uploads = [reading |-> 0, loading |-> 0, submitted |-> 1, failed |-> 0]
    /\ mp = MPStarted
    /\ scene = SceneBuilt
    /\ last = [op |-> "mount", open |-> 0, pinch |-> 0, hit |-> NULL,
               mode |-> modeRef, focus |-> focusTargetRef]

NextUpdate == Render

SpecUpdate == InitUpdate /\ [][NextUpdate]_vars

(* The component over its life: from the mount, the steps of                *)
(* setupMediaPipe, the detections, the clicks, the frames and the timeouts  *)
(* of every scene instance, and the cleanups and re-runs of the effects.    *)
Ready ==
    \/ LoadTimeout
    \/ \E i \in DOMAIN scene.stale : LoadTimeoutStale(i)

RenderStale == \E i \in DOMAIN scene.stale, dt \in Deltas : AnimateStale(i, dt)

NextScene ==
    Setup \/ Gestures \/ Click \/ Render \/ RenderStale \/ Ready \/ Unmount \/ Mount

SpecScene == InitMedia /\ [][NextScene]_vars

-----------------------------------------------------------------------------
(* Properties *)

IsGesture == last.op = "gesture"
IsFist == IsGesture /\ last.open < FIST_THRESHOLD
IsPinch == IsGesture /\ last.open >= FIST_THRESHOLD /\ last.pinch < PINCH_THRESHOLD
IsOpen == IsGesture /\ last.open > OPEN_THRESHOLD /\ last.pinch >= PINCH_THRESHOLD
IsNeutral ==
    /\ IsGesture
    /\ last.open >= FIST_THRESHOLD
    /\ last.open <= OPEN_THRESHOLD
    /\ last.pinch >= PINCH_THRESHOLD
IsClickHit == last.op = "click" /\ last.hit # NULL
IsClickMiss == last.op = "click" /\ last.hit = NULL

\* C1: in every reachable state the focus target is non-null only if the
\* mode is FOCUS; in TREE and in SCATTER it is null.
FocusOnlyInFocusMode == focusTargetRef # NULL => modeRef = "FOCUS"

\* C1, witness: a step has left FOCUS, where a photo was focused, and the
\* focus target is null again.
FocusLeft ==
    /\ last.mode = "FOCUS"
    /\ last.focus # NULL
    /\ modeRef # "FOCUS"
    /\ focusTargetRef = NULL

\* C2: after a detection of a hand whose openness is below the fist threshold
\* the mode is TREE and the focus target is null, whatever the mode was and
\* whatever the pinch distance is.
FistForcesTree == IsFist => (modeRef = "TREE" /\ focusTargetRef = NULL)

\* C2, witness: a fist that is also a pinch, detected in FOCUS on a photo.
FistOverPinchInFocus ==
    /\ IsFist
    /\ last.pinch < PINCH_THRESHOLD
    /\ last.mode = "FOCUS"
    /\ last.focus # NULL
    /\ modeRef = "TREE"

\* C3: after a detection of an open hand that does not pinch the mode is
\* SCATTER and the focus target is null, whatever the mode was.
OpenHandScatters == IsOpen => (modeRef = "SCATTER" /\ focusTargetRef = NULL)

\* C3, witness: an open hand detected in FOCUS on a photo.
OpenHandInFocus ==
    /\ IsOpen
    /\ last.mode = "FOCUS"
    /\ last.focus # NULL
    /\ modeRef = "SCATTER"

\* C4: after a pinch detected in TREE or SCATTER with a photo in the
\* collection the mode is FOCUS and the focus target is the renderable of one
\* of the photo entities of the collection.
PinchEntersFocus ==
    (IsPinch /\ last.mode \in {"TREE", "SCATTER"} /\ Photos(particlesRef) # {})
        => (modeRef = "FOCUS" /\ focusTargetRef \in PhotoMeshes(particlesRef))

\* C4, witness: a pinch detected in SCATTER, with an uploaded photo beside
\* the default one, has focused the uploaded photo.
PinchPickedUpload ==
    /\ IsPinch
    /\ last.mode = "SCATTER"
    /\ Cardinality(Photos(particlesRef)) >= 2
    /\ modeRef = "FOCUS"
    /\ focusTargetRef \in PhotoMeshes(particlesRef) \ {DefaultPhotoGrp}

\* C5: after a click whose first intersection is a mesh of a photo the mode
\* is FOCUS and the focus target is the group of that photo, the renderable
\* of a photo entity, whatever the mode and the focus target were.
ClickHitFocuses ==
    IsClickHit =>
        /\ modeRef = "FOCUS"
        /\ focusTargetRef = parent[last.hit]
        /\ focusTargetRef \in PhotoMeshes(particlesRef)

\* C5, witness: a click on a photo while the mode was FOCUS on another photo.
ClickHitRefocused ==
    /\ IsClickHit
    /\ last.mode = "FOCUS"
    /\ last.focus # NULL
    /\ last.focus # focusTargetRef

\* C6: a click that intersects no photo takes FOCUS to SCATTER with the focus
\* target cleared, SCATTER to TREE, and TREE to SCATTER; it never yields FOCUS.
ClickMissCycle ==
    IsClickMiss =>
        /\ last.mode = "FOCUS" => (modeRef = "SCATTER" /\ focusTargetRef = NULL)
        /\ last.mode = "SCATTER" => modeRef = "TREE"
        /\ last.mode = "TREE" => modeRef = "SCATTER"
        /\ modeRef # "FOCUS"

\* C6, witness: a click that missed in TREE, after a frame was rendered.
ClickMissFromTree ==
    /\ IsClickMiss
    /\ last.mode = "TREE"
    /\ modeRef = "SCATTER"
    /\ clock.ticks > 0

\* C7: a detection that matches none of the three rules, and a detection
\* without a hand, leave the mode and the focus target as they were.
NoRuleKeepsMode ==
    (IsNeutral \/ last.op = "nohand")
        => (modeRef = last.mode /\ focusTargetRef = last.focus)

\* C7, witness: a hand at the open threshold itself, not pinching, detected
\* in FOCUS on a photo.
NeutralInFocus ==
    /\ IsNeutral
    /\ last.open = OPEN_THRESHOLD
    /\ last.pinch = PINCH_THRESHOLD
    /\ modeRef = "FOCUS"
    /\ focusTargetRef # NULL

\* C8: a pinch detected while the mode is FOCUS leaves the mode at FOCUS and
\* the focus target unchanged.
PinchInFocusKeepsTarget ==
    (IsPinch /\ last.mode = "FOCUS")
        => (modeRef = "FOCUS" /\ focusTargetRef = last.focus)

\* C8, witness: a pinch detected in FOCUS on the default photo while another
\* photo could have been picked.
PinchHeldInFocus ==
    /\ IsPinch
    /\ last.mode = "FOCUS"
    /\ last.focus = DefaultPhotoGrp
    /\ Cardinality(Photos(particlesRef)) >= 2
    /\ focusTargetRef = DefaultPhotoGrp

\* type and layout of a particle: what no step may change
Layout(p) == [mesh |-> p.mesh, type |-> p.type, isDust |-> p.isDust,
              posTree |-> p.posTree, posScatter |-> p.posScatter]

\* C9: files in flight eventually settle, and the photo entities are the
\* default photo and one per file that has decoded, so N files that all decode
\* eventually add exactly N photo entities; every upload completion appends
\* one photo entity and leaves the entities already there, the mode and the
\* focus target unchanged; and no step removes, reorders or retypes an entity
\* or moves one of its two layout positions.
UploadsAppendPhotos ==
    /\ (InFlight > 0) ~> (InFlight = 0)
    /\ [](Cardinality(Photos(particlesRef)) = 1 + uploads.submitted - InFlight - uploads.failed)
    /\ [](Len(particlesRef) = OrnamentCount + DustCount + Cardinality(Photos(particlesRef)))
    /\ [][ /\ Len(particlesRef') >= Len(particlesRef)
           /\ \A k \in 1 .. Len(particlesRef) :
                Layout(particlesRef'[k]) = Layout(particlesRef[k])
           /\ last'.op # "addPhoto" => Len(particlesRef') = Len(particlesRef)
           /\ last'.op = "addPhoto" =>
                /\ Len(particlesRef') = Len(particlesRef) + 1
                /\ SubSeq(particlesRef', 1, Len(particlesRef)) = particlesRef
                /\ particlesRef'[Len(particlesRef')].type = "PHOTO"
                /\ modeRef' = modeRef
                /\ focusTargetRef' = focusTargetRef ]_vars

\* C9, witness: two files were uploaded together, both have decoded, the last
\* completion came while the mode was FOCUS, and three photos are in the
\* collection.
TwoUploadsDone ==
    /\ last.op = "addPhoto"
    /\ uploads.submitted = 2
    /\ InFlight = 0
    /\ uploads.failed = 0
    /\ modeRef = "FOCUS"
    /\ Cardinality(Photos(particlesRef)) = 3

\* C10: once the cleanup of the MediaPipe effect has run and setupMediaPipe
\* has settled, no camera track is live, no call of predictWebcam is pending
\* and the detector, if one was created, is closed.
ReleasedAfterTeardown ==
    (mp.tornDown /\ mp.pc \in {"done", "failed"})
        => /\ mp.tracks # "live"
           /\ ~mp.raf
           /\ mp.handLandmarker # "open"

\* C11: once a step of setupMediaPipe has failed it stays failed (no retry),
\* predictWebcam is neither registered nor pending and has processed no frame,
\* no hand is detected, a later step changes the mode or the focus target only
\* if it is a click, and a click that changes the mode and, while frames
\* remain, a frame of the render loop are still possible.
PointerOnlyAfterFailure ==
    /\ [](mp.pc = "failed" =>
            /\ ~handRef.detected
            /\ ~mp.listening
            /\ ~mp.raf
            /\ mp.lastVideoTime = -1
            /\ ENABLED (Click /\ modeRef' # modeRef)
            /\ Budget > 0 => ENABLED Render)
    /\ [][mp.pc = "failed" =>
            /\ mp'.pc = "failed"
            /\ handRef' = handRef
            /\ last'.op \in {"click", "animate"}
            /\ (modeRef' # modeRef \/ focusTargetRef' # focusTargetRef)
                  => last'.op = "click" ]_vars

\* C11, witness: getUserMedia was refused after the detector was created, a
\* frame was rendered, and a click on a photo changed the mode to FOCUS.
ClickAfterCameraRefused ==
    /\ mp.pc = "failed"
    /\ mp.handLandmarker = "open"
    /\ clock.ticks > 0
    /\ IsClickHit
    /\ last.mode # "FOCUS"
    /\ modeRef = "FOCUS"

\* C12: the ready signal is one-shot: over the cleanups and re-runs of the
\* scene effect onLoadComplete is invoked at most once, and never by a scene
\* instance whose cleanup has run.
ReadySignalOnce == scene.ready <= 1 /\ ~scene.readyTorn

\* the animation frame requests pending over all scene instances
PendingFrames ==
    (IF scene.frame # "none" THEN 1 ELSE 0)
    + Cardinality({ i \in DOMAIN scene.stale : scene.stale[i].frame # "none" })

\* C13: once the cleanup of a scene instance has run no animate callback of
\* that instance is pending and none is executed, so at most one render loop
\* is active.
RenderLoopEndsAtCleanup ==
    /\ ~scene.live => scene.frame = "none"
    /\ \A i \in DOMAIN scene.stale : scene.stale[i].frame = "none"
    /\ ~scene.ranTorn
    /\ PendingFrames <= 1

\* C17: in every reachable state, over detections, clicks and the cleanups
\* and re-runs of the scene effect, a non-null focus target is the renderable
\* of exactly one entity of the current collection, and that entity is a
\* photo.
FocusTargetIsOnePhoto ==
    focusTargetRef # NULL =>
        /\ Cardinality({ k \in DOMAIN particlesRef : particlesRef[k].mesh = focusTargetRef }) = 1
        /\ \A k \in DOMAIN particlesRef :
              particlesRef[k].mesh = focusTargetRef => particlesRef[k].type = "PHOTO"

\* C14: a frame with dt = 0 leaves the position and the scale of every
\* entity exactly as they were, in every mode, for the focus target and for
\* the other entities, for ornaments, dust and photos, at every elapsed time;
\* so does any number of such frames.
UpdateFixedAtZeroDt ==
    [][ (last'.op = "animate" /\ last'.open = 0) =>
          /\ Len(particlesRef') = Len(particlesRef)
          /\ \A k \in DOMAIN particlesRef :
                /\ particlesRef'[k].position = particlesRef[k].position
                /\ particlesRef'[k].scale = particlesRef[k].scale ]_vars

\* C14, witness: a second frame has run, the last with dt = 0, in FOCUS while
\* the focus target is neither at its target scale nor back at its base
\* scale, and a dust speck is away from its target scale.
ZeroDtFrameMidFlight ==
    /\ last.op = "animate"
    /\ last.open = 0
    /\ clock.ticks >= 2
    /\ modeRef = "FOCUS"
    /\ \E k \in DOMAIN particlesRef :
         /\ particlesRef[k].mesh = focusTargetRef
         /\ particlesRef[k].scale # particlesRef[k].baseScale
         /\ particlesRef[k].scale # TargetScale(particlesRef[k], modeRef, clock.time, focusTargetRef)
         /\ particlesRef[k].position # particlesRef[k].posScatter
    /\ \E k \in DOMAIN particlesRef :
         /\ particlesRef[k].isDust
         /\ particlesRef[k].scale # TargetScale(particlesRef[k], modeRef, clock.time, focusTargetRef)

\* the target scale Particle.update chooses for entity k in this state
ScaleChosen(k) == TargetScale(particlesRef[k], modeRef, clock.time, focusTargetRef)

\* C15, as stated: the target scale chosen by a frame in FOCUS is above the
\* base scale for the focus target and strictly below it for every other
\* entity, dust included.
FocusShrinksAllOthers ==
    (modeRef = "FOCUS" /\ last.op = "animate") =>
        \A k \in DOMAIN particlesRef :
            IF particlesRef[k].mesh = focusTargetRef
            THEN ScaleChosen(k) > particlesRef[k].baseScale
            ELSE ScaleChosen(k) < particlesRef[k].baseScale

\* C15, amended: in FOCUS the target scale is above the base scale for the
\* focus target and strictly below it for every other entity that is not
\* dust; the target scale of a dust speck follows its twinkle, between 0.3 and
\* 1.3 times its base scale.
FocusShrinksOthersButDust ==
    modeRef = "FOCUS" =>
        \A k \in DOMAIN particlesRef :
            IF particlesRef[k].isDust
            THEN /\ ScaleChosen(k) >= Mul(particlesRef[k].baseScale, 300)
                 /\ ScaleChosen(k) <= Mul(particlesRef[k].baseScale, 1300)
            ELSE IF particlesRef[k].mesh = focusTargetRef
            THEN ScaleChosen(k) > particlesRef[k].baseScale
            ELSE ScaleChosen(k) < particlesRef[k].baseScale

\* C15, witness: a frame has run in FOCUS on one photo while the other photo
\* and the ornaments shrink and a dust speck twinkles above its base scale.
DustAboveBaseInFocus ==
    /\ last.op = "animate"
    /\ last.open > 0
    /\ modeRef = "FOCUS"
    /\ \E k \in DOMAIN particlesRef :
         particlesRef[k].type = "PHOTO" /\ particlesRef[k].mesh = focusTargetRef
    /\ \E k \in DOMAIN particlesRef :
         /\ particlesRef[k].type = "PHOTO"
         /\ particlesRef[k].mesh # focusTargetRef
         /\ ScaleChosen(k) < particlesRef[k].baseScale
    /\ \E k \in DOMAIN particlesRef :
         particlesRef[k].isDust /\ ScaleChosen(k) > particlesRef[k].baseScale

\* a2 lies between a and t, and has left a where t is some way off and time
\* has passed
Toward(a, a2, t, dt) ==
    /\ (a <= a2 /\ a2 <= t) \/ (t <= a2 /\ a2 <= a)
    /\ (dt > 0 /\ Abs(t - a) >= 10) => a2 # a

\* C16: on every frame the rotation of the main group heads for the target
\* given by the hand if a hand is detected and the mode is SCATTER or FOCUS,
\* and for the target given by the pointer otherwise; in TREE the rotation
\* about the vertical axis advances by 0.2 rad/s times dt, whatever the
\* pointer and the hand are, and the tilt heads for the pointer's target.
RotationSourcePerFrame ==
    [][ last'.op = "animate" =>
          LET dt     == last'.open
              byHand == handRef.detected /\ modeRef \in {"SCATTER", "FOCUS"}
              srcY   == IF byHand THEN (handRef.x * PI * 8) \div (10 * Milli)
                                  ELSE (mouseRef.x * PI * 5) \div (10 * Milli)
              srcX   == IF byHand THEN (handRef.y * PI * 3) \div (10 * Milli)
                                  ELSE (mouseRef.y * PI * 2) \div (10 * Milli)
          IN  /\ modeRef = "TREE" => rotation'.y = rotation.y + (200 * dt) \div Milli
              /\ modeRef # "TREE" => Toward(rotation.y, rotation'.y, srcY, dt)
              /\ Toward(rotation.x, rotation'.x, srcX, dt) ]_vars

\* C16, witness: a frame has run in TREE while a hand was detected and the
\* pointer had been moved off the centre before: the tree has turned by the
\* fixed rate and tilted towards the pointer.
TreeFrameWithHandAndPointer ==
    /\ last.op = "animate"
    /\ last.open > 0
    /\ last.mode = "TREE"
    /\ handRef.detected
    /\ handRef.x # 0
    /\ mouseRef.x # 0
    /\ mouseRef.y # 0
    /\ rotation.y = (200 * last.open) \div Milli
    /\ rotation.x > 0

=============================================================================
